---- MODULE Spec2Model ----
(***************************************************************************)
(* Model of the marv_robotics node library: the GNSS nodes of gnss.py      *)
(* (positions, imus, navsatorients, orientations, gnss_plots) and the      *)
(* detail nodes of detail.py (widgets and section assemblers).             *)
(*                                                                         *)
(* Every node is a Python generator.  A node invocation is modelled as a   *)
(* process whose program counter names the request it is suspended on      *)
(* (the pending `yield`); one action services that request and runs the    *)
(* code that follows it up to the next yield, the end, or a raise.  The    *)
(* requests an invocation issued, and the calls it made on its logger,     *)
(* are recorded in order in events[i].                                     *)
(*                                                                         *)
(* Text is a sequence of one-character strings.  Floating point values     *)
(* are integers plus the value NaN.                                        *)
(***************************************************************************)
EXTENDS Integers, Sequences, FiniteSets, TLC

VARIABLES kind, input, pc, local, events

vars == <<kind, input, pc, local, events>>

\* Python's None (the end marker of a stream, an absent stream, an unset
\* local) against a value that is present.
None == [none |-> TRUE]
Some(v) == [none |-> FALSE, v |-> v]
IsNone(x) == x.none

\* A float: not-a-number, or the number (v + r * sqrt(2)) / d kept exactly,
\* with d a power of two and the fraction in lowest terms, so that equal
\* numbers are equal records.  Num(v) is the integer v.
RECURSIVE Float(_, _, _)
Float(v, r, d) ==
    IF d > 1 /\ v % 2 = 0 /\ r % 2 = 0
    THEN Float(v \div 2, r \div 2, d \div 2)
    ELSE [nan |-> FALSE, v |-> v, r |-> r, d |-> d]
NaN == [nan |-> TRUE, v |-> 0, r |-> 0, d |-> 1]
Num(v) == Float(v, 0, 1)
\* np.isnan
isnan(x) == x.nan
\* float subtraction, addition and multiplication
Sub(a, b) ==
    IF a.nan \/ b.nan THEN NaN
    ELSE LET d == IF a.d > b.d THEN a.d ELSE b.d
         IN Float(a.v * (d \div a.d) - b.v * (d \div b.d),
                  a.r * (d \div a.d) - b.r * (d \div b.d), d)
Add(a, b) ==
    IF a.nan \/ b.nan THEN NaN
    ELSE LET d == IF a.d > b.d THEN a.d ELSE b.d
         IN Float(a.v * (d \div a.d) + b.v * (d \div b.d),
                  a.r * (d \div a.d) + b.r * (d \div b.d), d)
Mul(a, b) ==
    IF a.nan \/ b.nan THEN NaN
    ELSE Float(a.v * b.v + 2 * a.r * b.r, a.v * b.r + a.r * b.v, a.d * b.d)
\* The sign of a float that is a number: -1, 0 or 1.
Sign(x) ==
    IF x.v >= 0 /\ x.r >= 0 THEN (IF x.v = 0 /\ x.r = 0 THEN 0 ELSE 1)
    ELSE IF x.v <= 0 /\ x.r <= 0 THEN -1
    ELSE IF x.v > 0 THEN (IF x.v * x.v > 2 * x.r * x.r THEN 1 ELSE -1)
    ELSE (IF 2 * x.r * x.r > x.v * x.v THEN 1 ELSE -1)
\* np.sqrt, on the perfect squares and the negative numbers
sqrt(x) ==
    IF x.nan \/ x.v < 0 THEN NaN
    ELSE Num(CHOOSE r \in 0..x.v : r * r = x.v)

\* ------------------------------------------------------------------ bounds

\* Longest record stream given to an extractor in a single invocation.
MaxMsgs == 4

\* Longest record stream given to each of two foreach instances.
MaxPairMsgs == 2

\* Most rows of an aggregate given to each of two plot composer invocations.
MaxPairRows == 1

\* Longest input of the merge node.
MaxItems == 2

\* Most source streams given to a section assembler.
MaxStreams == 2

\* Most rows of an aggregate given to the plot composer.
MaxRows == 2

\* ------------------------------------------------------------------ helpers

SeqsUpTo(S, n) == UNION {[1..k -> S] : k \in 0..n}

Last(s) == s[Len(s)]

\* ------------------------------------------------------------------ text

\* str.replace(old, new) for one-character old and new
Replace(s, old, new) == [k \in 1..Len(s) |-> IF s[k] = old THEN new ELSE s[k]]

\* s[1:]
DropFirst(s) == SubSeq(s, 2, Len(s))

\* sep.join(parts)
RECURSIVE Join(_, _)
Join(sep, parts) ==
    IF parts = <<>> THEN <<>>
    ELSE IF Len(parts) = 1 THEN parts[1]
    ELSE parts[1] \o sep \o Join(sep, Tail(parts))

\* The characters of the model's titles, in code point order.
Chars == <<" ", ".", "/", ":", "_", "a", "b", "d", "e", "g", "h", "i", "j",
           "m", "n", "o", "p", "s", "t", "u", "w", "x", "y">>

\* ord(c)
Ord(c) == CHOOSE k \in 1..Len(Chars) : Chars[k] = c

\* s <= t for Python strings
RECURSIVE StrLeq(_, _)
StrLeq(s, t) ==
    IF s = <<>> THEN TRUE
    ELSE IF t = <<>> THEN FALSE
    ELSE IF s[1] = t[1] THEN StrLeq(Tail(s), Tail(t))
    ELSE Ord(s[1]) < Ord(t[1])

\* A variant of SortedByTitle that keeps the order of arrival.
SortedByTitleKeepsOrder(xs) == xs

\* sorted(xs, key=lambda x: x.title): stable, ascending
RECURSIVE SortedByTitle(_)
SortedByTitle(xs) ==
    IF xs = <<>> THEN <<>>
    ELSE LET x == xs[Len(xs)]
             rest == SortedByTitle(SubSeq(xs, 1, Len(xs) - 1))
             before == SelectSeq(rest, LAMBDA y : StrLeq(y.title, x.title))
             after == SelectSeq(rest, LAMBDA y : ~StrLeq(y.title, x.title))
         IN before \o <<x>> \o after

\* os.path.basename(path)
RECURSIVE Basename(_)
Basename(path) ==
    IF path = <<>> THEN <<>>
    ELSE IF path[Len(path)] = "/" THEN <<>>
    ELSE Append(Basename(SubSeq(path, 1, Len(path) - 1)), path[Len(path)])

\* len(set(x['title'] for x in widgets)) == len(widgets)
UniqueTitles(widgets) ==
    Cardinality({widgets[k].title : k \in 1..Len(widgets)}) = Len(widgets)

\* ------------------------------------------------------------------ events

SetHeaderEv(title) == [op |-> "set_header", arg |-> title]
PullEv(name, got) == [op |-> "pull", arg |-> <<name, got>>]
PullAllEv(got) == [op |-> "pull_all", arg |-> got]
PushEv(item) == [op |-> "push", arg |-> item]
GetLoggerEv == [op |-> "get_logger", arg |-> None]
LogEv(level, what) == [op |-> "log", arg |-> <<level, what>>]
MakeFileEv(name) == [op |-> "make_file", arg |-> name]
\* an exception leaving the generator: marv.Abort, or any other (a fault)
RaiseEv(exc) == [op |-> "raise", arg |-> exc]

\* ------------------------------------------------------------------ framework

\* marv.pull: the next item of the stream, or the end marker.
Pull(items, consumed) ==
    IF consumed < Len(items) THEN Some(items[consumed + 1]) ELSE None

\* marv.pull_all: one item from each listed stream (None for a stream that
\* ended without an item).
PullAll(streams) == [k \in 1..Len(streams) |-> Pull(streams[k].items, 0)]

\* A stream as a node receives it: a header title and the items it carries.
Stream(title, items) == [title |-> title, items |-> items]

\* The invocation i finished the step it was suspended on.
Step(i, newpc, newlocal, evs) ==
    /\ pc' = [pc EXCEPT ![i] = newpc]
    /\ local' = [local EXCEPT ![i] = newlocal]
    /\ events' = [events EXCEPT ![i] = @ \o evs]
    /\ UNCHANGED <<kind, input>>

Terminal == {"done", "abort", "fault"}

\* ------------------------------------------------------------------ yaw_angle

\* np.arctan2 on the eight principal directions, in units of pi/4 (pi4 |-> 2
\* is pi/2); any other direction is left as the pair it was called on.
arctan2(y, x) ==
    IF y.nan \/ x.nan THEN [nan |-> TRUE, pi4 |-> 0]
    ELSE IF Sign(y) = 0 /\ Sign(x) >= 0 THEN [nan |-> FALSE, pi4 |-> 0]
    ELSE IF Sign(y) = 0 THEN [nan |-> FALSE, pi4 |-> 4]
    ELSE IF Sign(x) = 0 THEN [nan |-> FALSE, pi4 |-> IF Sign(y) > 0 THEN 2 ELSE -2]
    ELSE IF x = y THEN [nan |-> FALSE, pi4 |-> IF Sign(y) > 0 THEN 1 ELSE -3]
    ELSE IF x = Sub(Num(0), y)
    THEN [nan |-> FALSE, pi4 |-> IF Sign(y) > 0 THEN 3 ELSE -1]
    ELSE [nan |-> FALSE, y |-> y, x |-> x]

\* A variant of yaw_angle that hands the components of the rotated vector to
\* arctan2 in the other order.
yaw_angle_swapped(frame) ==
    LET x == Sub(Sub(Num(1), Mul(Mul(Num(2), frame.y), frame.y)),
                 Mul(Mul(Num(2), frame.z), frame.z))
        y == Mul(Num(2), Add(Mul(frame.x, frame.y), Mul(frame.z, frame.w)))
    IN arctan2(x, y)

yaw_angle(frame) ==
    LET q1 == frame.x
        q2 == frame.y
        q3 == frame.z
        q4 == frame.w
        one == Num(1)
        two == Num(2)
        rot == [rc \in (0..2) \X (0..2) |->
            CASE rc = <<0, 0>> -> Sub(Sub(one, Mul(Mul(two, q2), q2)), Mul(Mul(two, q3), q3))
              [] rc = <<0, 1>> -> Mul(two, Sub(Mul(q1, q2), Mul(q3, q4)))
              [] rc = <<0, 2>> -> Mul(two, Add(Mul(q1, q3), Mul(q2, q4)))
              [] rc = <<1, 0>> -> Mul(two, Add(Mul(q1, q2), Mul(q3, q4)))
              [] rc = <<1, 1>> -> Sub(Sub(one, Mul(Mul(two, q1), q1)), Mul(Mul(two, q3), q3))
              [] rc = <<1, 2>> -> Mul(two, Sub(Mul(q2, q3), Mul(q1, q4)))
              [] rc = <<2, 0>> -> Mul(two, Sub(Mul(q1, q3), Mul(q2, q4)))
              [] rc = <<2, 1>> -> Mul(two, Add(Mul(q1, q4), Mul(q2, q3)))
              [] rc = <<2, 2>> -> Sub(Sub(one, Mul(Mul(two, q1), q1)), Mul(Mul(two, q2), q2))]
        \* np.dot(rot, [1, 0, 0])
        vec == [r \in 0..2 |->
            Add(Add(Mul(rot[<<r, 0>>], Num(1)), Mul(rot[<<r, 1>>], Num(0))),
                Mul(rot[<<r, 2>>], Num(0)))]
    IN arctan2(vec[1], vec[0])

\* ------------------------------------------------------------------ positions

\* The planar coordinates are kept in units of 1/128 m.
UtmUnit == 128

\* Easting and northing of utm.from_latlon (WGS 84, scale 0.9996, false
\* easting 500000 m, false northing 10000000 m south of the equator, zone of
\* the longitude with the exceptions of Norway and Svalbard), rounded to
\* 1/128 m and tabulated in that unit on the coordinates in degrees that
\* occur here.
UtmTable ==
    {[latitude |-> 11, longitude |-> 48, easting |-> 22032462, northing |-> 155855153],
     [latitude |-> 14, longitude |-> 50, easting |-> 50176557, northing |-> 198138153],
     [latitude |-> 48, longitude |-> 11, easting |-> 83096048, northing |-> 680734159],
     [latitude |-> 50, longitude |-> 14, easting |-> 54826695, northing |-> 709006056],
     [latitude |-> 37, longitude |-> -122, easting |-> 75389098, northing |-> 524203480],
     [latitude |-> 84, longitude |-> 0, easting |-> 59520684, northing |-> 1194112663],
     [latitude |-> 60, longitude |-> 5, easting |-> 35453431, northing |-> 852244122],
     [latitude |-> 0, longitude |-> 0, easting |-> 21250745, northing |-> 0],
     [latitude |-> -34, longitude |-> 151, easting |-> 40357142, northing |-> 798213230],
     [latitude |-> 52, longitude |-> 13, easting |-> 46426321, northing |-> 737654632],
     [latitude |-> 40, longitude |-> -74, easting |-> 74926139, northing |-> 566814216],
     [latitude |-> -23, longitude |-> -43, easting |-> 90238998, northing |-> 954250483]}

\* utm.from_latlon(latitude, longitude), of the utm package: it raises
\* OutOfRangeError outside 80 deg S .. 84 deg N and 180 deg W .. 180 deg E
\* (a NaN fails both comparisons), and otherwise returns easting and northing.
from_latlon(latitude, longitude) ==
    IF latitude.nan \/ latitude.v < -80 \/ latitude.v > 84
    THEN [raised |-> TRUE, exc |-> "OutOfRangeError"]
    ELSE IF longitude.nan \/ longitude.v < -180 \/ longitude.v > 180
    THEN [raised |-> TRUE, exc |-> "OutOfRangeError"]
    ELSE LET at == CHOOSE t \in UtmTable :
                       t.latitude = latitude.v /\ t.longitude = longitude.v
         IN [raised |-> FALSE,
             easting |-> Float(at.easting, 0, UtmUnit),
             northing |-> Float(at.northing, 0, UtmUnit)]

\* A sensor_msgs/NavSatFix record, deserialized.
Fix(stamp, latitude, longitude, altitude, has_status, status, cov0) ==
    [stamp |-> Num(stamp), latitude |-> latitude, longitude |-> longitude,
     altitude |-> altitude, has_status |-> has_status, status |-> Num(status),
     position_covariance0 |-> Num(cov0)]

FixMunich == Fix(1, Num(48), Num(11), Num(500), TRUE, 0, 4)
FixPrague == Fix(2, Num(50), Num(14), Num(200), TRUE, 2, 1)
FixNaNAltitude == Fix(3, Num(48), Num(11), NaN, TRUE, 0, 4)
FixNaNLatitude == Fix(4, NaN, Num(11), Num(500), TRUE, 0, 4)
FixNaNLongitude == Fix(5, Num(48), NaN, Num(500), TRUE, 0, 4)
FixNoStatus == Fix(6, Num(48), Num(11), Num(500), FALSE, 0, 4)
FixSanFrancisco == Fix(7, Num(37), Num(-122), Num(10), TRUE, 1, 9)

FixRecords == {FixMunich, FixPrague, FixNaNAltitude, FixNaNLatitude,
               FixNaNLongitude, FixNoStatus, FixSanFrancisco}

\* The records of the instances of a foreach expansion.
PairFixRecords == {FixMunich, FixPrague, FixNaNAltitude, FixSanFrancisco}

TopicGnss == <<"/", "g", "n", "s", "s">>
TopicA == <<"/", "a">>
TopicB == <<"/", "b">>

\* A stream of messages: resolvable says whether get_message_class finds the
\* class of stream.msg_type.
PositionsInputs ==
    {[topic |-> TopicGnss, resolvable |-> r, msgs |-> m] :
        r \in BOOLEAN, m \in SeqsUpTo(FixRecords, MaxMsgs)}

PositionsLocal ==
    [consumed |-> 0, erroneous |-> 0, e_offset |-> None, n_offset |-> None,
     u_offset |-> None, positions |-> <<>>]

\* if not hasattr(rosmsg, 'status') or np.isnan(...) or ...
PositionsErroneous(rosmsg) ==
    \/ ~rosmsg.has_status
    \/ isnan(rosmsg.longitude)
    \/ isnan(rosmsg.latitude)
    \/ isnan(rosmsg.altitude)

\* e, n, _, _ = utm.from_latlon(rosmsg.longitude, rosmsg.latitude)
PositionsProject(rosmsg) == from_latlon(rosmsg.longitude, rosmsg.latitude)

\* A variant of PositionsOffsets without the test `if e_offset is None`: every
\* record becomes the origin.
PositionsOffsetsReset(i, e, n, altitude) ==
    [e_offset |-> Some(e), n_offset |-> Some(n), u_offset |-> Some(altitude),
     e |-> Sub(e, e), n |-> Sub(n, n), u |-> Sub(altitude, altitude)]

\* A variant of PositionsOffsets whose origin is shared by the instances (a
\* module-level origin): the first origin any instance set is everyone's.
PositionsOffsetsShared(i, e, n, altitude) ==
    LET holders == {j \in DOMAIN local : ~IsNone(local[j].e_offset)}
        unset == holders = {}
        j == CHOOSE h \in holders : TRUE
        e_offset == IF unset THEN e ELSE local[j].e_offset.v
        n_offset == IF unset THEN n ELSE local[j].n_offset.v
        u_offset == IF unset THEN altitude ELSE local[j].u_offset.v
    IN [e_offset |-> Some(e_offset), n_offset |-> Some(n_offset),
        u_offset |-> Some(u_offset),
        e |-> Sub(e, e_offset), n |-> Sub(n, n_offset),
        u |-> Sub(altitude, u_offset)]

\* The local origin after this record and the record's offsets from it.
PositionsOffsets(i, e, n, altitude) ==
    LET unset == IsNone(local[i].e_offset)
        e_offset == IF unset THEN e ELSE local[i].e_offset.v
        n_offset == IF unset THEN n ELSE local[i].n_offset.v
        u_offset == IF unset THEN altitude ELSE local[i].u_offset.v
    IN [e_offset |-> Some(e_offset), n_offset |-> Some(n_offset),
        u_offset |-> Some(u_offset),
        e |-> Sub(e, e_offset), n |-> Sub(n, n_offset),
        u |-> Sub(altitude, u_offset)]

\* yield marv.set_header(title=stream.topic); pytype = get_message_class(...);
\* rosmsg = pytype(), which raises TypeError when pytype is None
PositionsSetHeader(i) ==
    /\ kind[i] = "positions" /\ pc[i] = "set_header"
    /\ IF input[i].resolvable
       THEN Step(i, "pull", local[i], <<SetHeaderEv(input[i].topic)>>)
       ELSE Step(i, "fault", local[i],
                 <<SetHeaderEv(input[i].topic), RaiseEv("TypeError")>>)

\* msg = yield marv.pull(stream) and the body of the loop
PositionsPull(i) ==
    /\ kind[i] = "positions" /\ pc[i] = "pull"
    /\ LET msg == Pull(input[i].msgs, local[i].consumed)
           ev == PullEv("stream", msg)
           taken == [local[i] EXCEPT !.consumed = @ + 1]
       IN IF IsNone(msg)
          THEN Step(i, IF local[i].erroneous # 0 THEN "get_logger" ELSE "push",
                    local[i], <<ev>>)
          ELSE IF PositionsErroneous(msg.v)
          THEN Step(i, "pull", [taken EXCEPT !.erroneous = @ + 1], <<ev>>)
          ELSE LET rosmsg == msg.v
                   en == PositionsProject(rosmsg)
               IN IF en.raised
                  THEN Step(i, "fault", taken, <<ev, RaiseEv(en.exc)>>)
                  ELSE LET o == PositionsOffsets(i, en.easting, en.northing,
                                                 rosmsg.altitude)
                       IN Step(i, "pull",
                               [taken EXCEPT
                                   !.e_offset = o.e_offset,
                                   !.n_offset = o.n_offset,
                                   !.u_offset = o.u_offset,
                                   !.positions = Append(@,
                                       <<rosmsg.stamp, rosmsg.latitude,
                                         rosmsg.longitude, rosmsg.altitude,
                                         o.e, o.n, o.u, rosmsg.status,
                                         sqrt(rosmsg.position_covariance0)>>)],
                               <<ev>>)

\* log = yield marv.get_logger(); log.warn('skipped %d erroneous messages', ...)
PositionsGetLogger(i) ==
    /\ kind[i] = "positions" /\ pc[i] = "get_logger"
    /\ Step(i, "push", local[i],
            <<GetLoggerEv, LogEv("warn", local[i].erroneous)>>)

\* yield marv.push({'values': positions})
PositionsPush(i) ==
    /\ kind[i] = "positions" /\ pc[i] = "push"
    /\ Step(i, "done", local[i], <<PushEv([values |-> local[i].positions])>>)

\* ------------------------------------------------------------------ imus

\* A sensor_msgs/Imu record, deserialized.
Imu(stamp, x, y, z, w) ==
    [stamp |-> Num(stamp), orientation |-> [x |-> x, y |-> y, z |-> z, w |-> w]]

ImuIdentity == Imu(1, Num(0), Num(0), Num(0), Num(1))
ImuHalfTurn == Imu(2, Num(0), Num(0), Num(1), Num(0))
ImuNaN == Imu(3, NaN, NaN, NaN, NaN)
\* sqrt(2) / 2 and 1 / 2
Sqrt2Half == Float(0, 1, 2)
Half == Float(1, 0, 2)
\* A rotation by 90 degrees about the z axis, and one by 120 degrees about
\* the axis (1, 1, 1).
ImuQuarterTurn == Imu(4, Num(0), Num(0), Sqrt2Half, Sqrt2Half)
ImuThirdTurn == Imu(5, Half, Half, Half, Half)

ImuRecords == {ImuIdentity, ImuHalfTurn, ImuNaN, ImuQuarterTurn, ImuThirdTurn}

TopicImu == <<"/", "i", "m", "u">>

ImusInputs ==
    {[topic |-> TopicImu, resolvable |-> r, msgs |-> m] :
        r \in BOOLEAN, m \in SeqsUpTo(ImuRecords, MaxMsgs)}

ImusLocal == [consumed |-> 0, erroneous |-> 0, imus |-> <<>>]

\* yield marv.set_header(title=stream.topic); pytype = get_message_class(...);
\* rosmsg = pytype(), which raises TypeError when pytype is None
ImusSetHeader(i) ==
    /\ kind[i] = "imus" /\ pc[i] = "set_header"
    /\ IF input[i].resolvable
       THEN Step(i, "pull", local[i], <<SetHeaderEv(input[i].topic)>>)
       ELSE Step(i, "fault", local[i],
                 <<SetHeaderEv(input[i].topic), RaiseEv("TypeError")>>)

\* msg = yield marv.pull(stream) and the body of the loop
ImusPull(i) ==
    /\ kind[i] = "imus" /\ pc[i] = "pull"
    /\ LET msg == Pull(input[i].msgs, local[i].consumed)
           ev == PullEv("stream", msg)
           taken == [local[i] EXCEPT !.consumed = @ + 1]
       IN IF IsNone(msg)
          THEN Step(i, IF local[i].erroneous # 0 THEN "get_logger" ELSE "push",
                    local[i], <<ev>>)
          ELSE IF isnan(msg.v.orientation.x)
          THEN Step(i, "pull", [taken EXCEPT !.erroneous = @ + 1], <<ev>>)
          ELSE Step(i, "pull",
                    [taken EXCEPT !.imus = Append(@,
                        <<msg.v.stamp, yaw_angle(msg.v.orientation)>>)],
                    <<ev>>)

\* log = yield marv.get_logger(); log.warn('skipped %d erroneous messages', ...)
ImusGetLogger(i) ==
    /\ kind[i] = "imus" /\ pc[i] = "get_logger"
    /\ Step(i, "push", local[i],
            <<GetLoggerEv, LogEv("warn", local[i].erroneous)>>)

\* yield marv.push({'values': imus})
ImusPush(i) ==
    /\ kind[i] = "imus" /\ pc[i] = "push"
    /\ Step(i, "done", local[i], <<PushEv([values |-> local[i].imus])>>)

\* ------------------------------------------------------------------ navsatorients

\* A nmea_navsat_driver/NavSatOrientation record, deserialized.
NavSatOrientation(stamp, yaw) == [stamp |-> Num(stamp), yaw |-> yaw]

NavSatOrientationRecords ==
    {NavSatOrientation(1, Num(0)), NavSatOrientation(2, Num(1)),
     NavSatOrientation(3, NaN)}

TopicOrientation == <<"/", "o">>

NavsatorientsInputs ==
    {[topic |-> TopicOrientation, resolvable |-> r, msgs |-> m] :
        r \in BOOLEAN, m \in SeqsUpTo(NavSatOrientationRecords, MaxMsgs)}

NavsatorientsLocal == [consumed |-> 0, erroneous |-> 0, navsatorients |-> <<>>]

\* log = yield marv.get_logger()
NavsatorientsGetLogger(i) ==
    /\ kind[i] = "navsatorients" /\ pc[i] = "get_logger"
    /\ Step(i, "set_header", local[i], <<GetLoggerEv>>)

\* A variant of NavsatorientsSetHeader without the test of pytype.
NavsatorientsSetHeaderNoTest(i) ==
    /\ kind[i] = "navsatorients" /\ pc[i] = "set_header"
    /\ Step(i, "pull", local[i], <<SetHeaderEv(input[i].topic)>>)

\* yield marv.set_header(title=stream.topic); pytype = get_message_class(...);
\* if pytype is None: log.error(...); raise marv.Abort()
NavsatorientsSetHeader(i) ==
    /\ kind[i] = "navsatorients" /\ pc[i] = "set_header"
    /\ IF input[i].resolvable
       THEN Step(i, "pull", local[i], <<SetHeaderEv(input[i].topic)>>)
       ELSE Step(i, "abort", local[i],
                 <<SetHeaderEv(input[i].topic),
                   LogEv("error", "Message definition not available"),
                   RaiseEv("Abort")>>)

\* A variant of NavsatorientsPull that warns at every skipped record.
NavsatorientsPullWarnsEach(i) ==
    /\ kind[i] = "navsatorients" /\ pc[i] = "pull"
    /\ LET msg == Pull(input[i].msgs, local[i].consumed)
           ev == PullEv("stream", msg)
           taken == [local[i] EXCEPT !.consumed = @ + 1]
       IN IF IsNone(msg)
          THEN Step(i, "push", local[i], <<ev>>)
          ELSE IF isnan(msg.v.yaw)
          THEN Step(i, "pull", [taken EXCEPT !.erroneous = @ + 1],
                    <<ev, LogEv("warn", 1)>>)
          ELSE Step(i, "pull",
                    [taken EXCEPT !.navsatorients = Append(@,
                        <<msg.v.stamp, msg.v.yaw>>)],
                    <<ev>>)

\* msg = yield marv.pull(stream) and the body of the loop; after the loop
\* if erroneous: log.warn('skipped %d erroneous messages', erroneous)
NavsatorientsPull(i) ==
    /\ kind[i] = "navsatorients" /\ pc[i] = "pull"
    /\ LET msg == Pull(input[i].msgs, local[i].consumed)
           ev == PullEv("stream", msg)
           taken == [local[i] EXCEPT !.consumed = @ + 1]
       IN IF IsNone(msg)
          THEN Step(i, "push", local[i],
                    IF local[i].erroneous # 0
                    THEN <<ev, LogEv("warn", local[i].erroneous)>>
                    ELSE <<ev>>)
          ELSE IF isnan(msg.v.yaw)
          THEN Step(i, "pull", [taken EXCEPT !.erroneous = @ + 1], <<ev>>)
          ELSE Step(i, "pull",
                    [taken EXCEPT !.navsatorients = Append(@,
                        <<msg.v.stamp, msg.v.yaw>>)],
                    <<ev>>)

\* yield marv.push({'values': navsatorients})
NavsatorientsPush(i) ==
    /\ kind[i] = "navsatorients" /\ pc[i] = "push"
    /\ Step(i, "done", local[i], <<PushEv([values |-> local[i].navsatorients])>>)

\* ------------------------------------------------------------------ orientations

MergeItems == {1, 2, 3, 4}

OrientationsInputs ==
    {[imus |-> a, navsatorients |-> b] :
        a \in SeqsUpTo(MergeItems, MaxItems), b \in SeqsUpTo(MergeItems, MaxItems)}

OrientationsLocal == [imus |-> 0, navsatorients |-> 0, tmp |-> None]

\* A variant of OrientationsPullImus that returns at the end marker of imus
\* instead of leaving the first loop.
OrientationsPullImusReturns(i) ==
    /\ kind[i] = "orientations" /\ pc[i] = "pull_imus"
    /\ LET tmp == Pull(input[i].imus, local[i].imus)
       IN Step(i,
               IF IsNone(tmp) THEN "done" ELSE "push_imus",
               [local[i] EXCEPT !.tmp = tmp,
                                !.imus = IF IsNone(tmp) THEN @ ELSE @ + 1],
               <<PullEv("imus", tmp)>>)

\* tmp = yield marv.pull(imus); if tmp is None: break
OrientationsPullImus(i) ==
    /\ kind[i] = "orientations" /\ pc[i] = "pull_imus"
    /\ LET tmp == Pull(input[i].imus, local[i].imus)
       IN Step(i,
               IF IsNone(tmp) THEN "pull_navsatorients" ELSE "push_imus",
               [local[i] EXCEPT !.tmp = tmp,
                                !.imus = IF IsNone(tmp) THEN @ ELSE @ + 1],
               <<PullEv("imus", tmp)>>)

\* yield marv.push(tmp)
OrientationsPushImus(i) ==
    /\ kind[i] = "orientations" /\ pc[i] = "push_imus"
    /\ Step(i, "pull_imus", local[i], <<PushEv(local[i].tmp.v)>>)

\* tmp = yield marv.pull(navsatorients); if tmp is None: break
OrientationsPullNavsatorients(i) ==
    /\ kind[i] = "orientations" /\ pc[i] = "pull_navsatorients"
    /\ LET tmp == Pull(input[i].navsatorients, local[i].navsatorients)
       IN Step(i,
               IF IsNone(tmp) THEN "done" ELSE "push_navsatorients",
               [local[i] EXCEPT !.tmp = tmp,
                                !.navsatorients = IF IsNone(tmp) THEN @ ELSE @ + 1],
               <<PullEv("navsatorients", tmp)>>)

\* yield marv.push(tmp)
OrientationsPushNavsatorients(i) ==
    /\ kind[i] = "orientations" /\ pc[i] = "push_navsatorients"
    /\ Step(i, "pull_navsatorients", local[i], <<PushEv(local[i].tmp.v)>>)

\* ------------------------------------------------------------------ gnss_plots

\* Rows of a positions aggregate: stamp, latitude, longitude, altitude, e, n,
\* u, status, sqrt(cov[0]); the first is an origin row, the next one a row
\* with the offsets positions computes for it.
PlotRowOrigin ==
    <<Num(1), Num(48), Num(11), Num(500), Num(0), Num(0), Num(0), Num(0), Num(2)>>
PlotRowNext ==
    <<Num(2), Num(50), Num(14), Num(200),
      Sub(from_latlon(Num(14), Num(50)).easting,
          from_latlon(Num(11), Num(48)).easting),
      Sub(from_latlon(Num(14), Num(50)).northing,
          from_latlon(Num(11), Num(48)).northing),
      Num(-300), Num(2), Num(1)>>

PlotRows == {PlotRowOrigin, PlotRowNext}

\* Rows of an orientation aggregate: stamp, yaw.
OrientationRows == {<<Num(1), Num(0)>>}

TopicNested == <<"/", "a", "/", "b">>

\* The streams of positions: none, or a first one carrying its aggregate.
GpsStreams(rowsets) ==
    {<<>>} \cup {<<Stream(t, <<[values |-> v]>>)>> :
                    t \in {TopicGnss, TopicNested}, v \in rowsets}

\* The streams of orientations: none, or a first one that carries its
\* aggregate or ended without an item (its extractor aborted).
OrientationStreams(rowsets) ==
    {<<>>} \cup {<<Stream(t, m)>> :
                    t \in {TopicImu, TopicOrientation},
                    m \in {<<>>} \cup {<<[values |-> v]>> : v \in rowsets}}

\* savefig_ok: whether fig.savefig(plotfile.path) succeeds.
GnssPlotsInputsOver(gpsrows, orientationrows, savefig) ==
    {[gps |-> Stream(<<>>, g), orientation |-> Stream(<<>>, o), savefig_ok |-> ok] :
        g \in GpsStreams(gpsrows), o \in OrientationStreams(orientationrows),
        ok \in savefig}

GnssPlotsInputs ==
    GnssPlotsInputsOver(SeqsUpTo(PlotRows, MaxRows),
                        SeqsUpTo(OrientationRows, MaxRows), BOOLEAN)

GnssPlotsLocal ==
    [gps_stream |-> None, orientation_stream |-> None, gtitle |-> <<>>,
     otitle |-> <<>>, gps |-> <<>>, orientation |-> <<>>, name |-> <<>>,
     title |-> <<>>, plotfile |-> None, scatter |-> <<>>,
     orientation_plotted |-> FALSE, written |-> FALSE]

\* A variant of GnssPlotsName that only strips the leading '/'.
GnssPlotsNameUnsanitized(gtitle, otitle) ==
    Join(<<"_", "_">>, <<DropFirst(gtitle), DropFirst(otitle)>>)
    \o <<".", "j", "p", "g">>

\* name = '__'.join(x.replace('/', ':')[1:] for x in [gtitle, otitle]) + '.jpg'
GnssPlotsName(gtitle, otitle) ==
    Join(<<"_", "_">>,
         <<DropFirst(Replace(gtitle, "/", ":")),
           DropFirst(Replace(otitle, "/", ":"))>>)
    \o <<".", "j", "p", "g">>

\* title = '{} with {}'.format(gtitle, otitle)
GnssPlotsTitle(gtitle, otitle) ==
    gtitle \o <<" ", "w", "i", "t", "h", " ">> \o otitle

\* A variant of GnssPlotsTitles that keeps the orientation stream's title when
\* the stream carried no item.
GnssPlotsTitlesKeepsTitle(loc, orientation) ==
    LET otitle == IF IsNone(loc.orientation_stream) THEN <<"n", "o", "n", "e">>
                  ELSE loc.otitle
    IN [loc EXCEPT
           !.otitle = otitle,
           !.orientation = IF IsNone(orientation) THEN <<>> ELSE orientation.v.values,
           !.name = GnssPlotsName(loc.gtitle, otitle),
           !.title = GnssPlotsTitle(loc.gtitle, otitle)]

\* if orientation is None: warn, otitle = 'none', orientation = []
\* else: orientation = orientation['values']; then name and title
GnssPlotsTitles(loc, orientation) ==
    LET otitle == IF IsNone(orientation) THEN <<"n", "o", "n", "e">> ELSE loc.otitle
    IN [loc EXCEPT
           !.otitle = otitle,
           !.orientation = IF IsNone(orientation) THEN <<>> ELSE orientation.v.values,
           !.name = GnssPlotsName(loc.gtitle, otitle),
           !.title = GnssPlotsTitle(loc.gtitle, otitle)]

GnssPlotsWarning(orientation) ==
    IF IsNone(orientation) THEN <<LogEv("warn", "No orientations found")>> ELSE <<>>

\* log = yield marv.get_logger()
GnssPlotsGetLogger(i) ==
    /\ kind[i] = "gnss_plots" /\ pc[i] = "get_logger"
    /\ Step(i, "pull_all", local[i], <<GetLoggerEv>>)

\* gps, orientation = yield marv.pull_all(gps, orientation)
\* if gps is None: log.error('No gps messages'); raise marv.Abort()
GnssPlotsPullAll(i) ==
    /\ kind[i] = "gnss_plots" /\ pc[i] = "pull_all"
    /\ LET got == PullAll(<<input[i].gps, input[i].orientation>>)
           gps == got[1]
           orientation == got[2]
       IN IF IsNone(gps)
          THEN Step(i, "abort", local[i],
                    <<PullAllEv(got), LogEv("error", "No gps messages"),
                      RaiseEv("Abort")>>)
          ELSE Step(i, "pull_gps",
                    [local[i] EXCEPT !.gps_stream = gps,
                                     !.orientation_stream = orientation,
                                     !.gtitle = gps.v.title],
                    <<PullAllEv(got)>>)

\* gps = yield marv.pull(gps); gps = gps['values']
\* if orientation is not None: otitle = orientation.title
GnssPlotsPullGps(i) ==
    /\ kind[i] = "gnss_plots" /\ pc[i] = "pull_gps"
    /\ LET gps == Pull(local[i].gps_stream.v.items, 0)
           ev == PullEv("gps", gps)
       IN IF IsNone(gps)
          THEN Step(i, "fault", local[i], <<ev, RaiseEv("TypeError")>>)
          ELSE LET loc == [local[i] EXCEPT !.gps = gps.v.values]
               IN IF ~IsNone(loc.orientation_stream)
                  THEN Step(i, "pull_orientation",
                            [loc EXCEPT !.otitle = loc.orientation_stream.v.title],
                            <<ev>>)
                  ELSE Step(i, "set_header", GnssPlotsTitles(loc, None),
                            <<ev>> \o GnssPlotsWarning(None))

\* orientation = yield marv.pull(orientation)
GnssPlotsPullOrientation(i) ==
    /\ kind[i] = "gnss_plots" /\ pc[i] = "pull_orientation"
    /\ LET orientation == Pull(local[i].orientation_stream.v.items, 0)
       IN Step(i, "set_header", GnssPlotsTitles(local[i], orientation),
               <<PullEv("orientation", orientation)>>
               \o GnssPlotsWarning(orientation))

\* yield marv.set_header(title=title)
GnssPlotsSetHeader(i) ==
    /\ kind[i] = "gnss_plots" /\ pc[i] = "set_header"
    /\ Step(i, "make_file", local[i], <<SetHeaderEv(local[i].title)>>)

\* A variant of GnssPlotsMakeFile that aborts on an aggregate without rows,
\* after the artifact is allocated.
GnssPlotsMakeFileAborts(i) ==
    /\ kind[i] = "gnss_plots" /\ pc[i] = "make_file"
    /\ LET ev == MakeFileEv(local[i].name)
           loc == [local[i] EXCEPT !.plotfile = Some([relpath |-> local[i].name])]
       IN IF loc.gps = <<>>
          THEN Step(i, "abort", loc, <<ev, RaiseEv("Abort")>>)
          ELSE Step(i, "yield_plotfile",
                    [loc EXCEPT
                        !.scatter = SelectSeq(loc.gps, LAMBDA row : ~isnan(row[2])),
                        !.orientation_plotted = (loc.orientation # <<>>),
                        !.written = input[i].savefig_ok],
                    <<ev>>)

\* A variant of GnssPlotsMakeFile in which a failure of savefig is not caught.
GnssPlotsMakeFileRaises(i) ==
    /\ kind[i] = "gnss_plots" /\ pc[i] = "make_file"
    /\ LET ev == MakeFileEv(local[i].name)
           loc == [local[i] EXCEPT !.plotfile = Some([relpath |-> local[i].name])]
       IN IF loc.gps = <<>>
          THEN Step(i, "fault", loc, <<ev, RaiseEv("IndexError")>>)
          ELSE IF ~input[i].savefig_ok
          THEN Step(i, "fault", loc, <<ev, RaiseEv("IOError")>>)
          ELSE Step(i, "yield_plotfile",
                    [loc EXCEPT
                        !.scatter = SelectSeq(loc.gps, LAMBDA row : ~isnan(row[2])),
                        !.orientation_plotted = (loc.orientation # <<>>),
                        !.written = TRUE],
                    <<ev>>)

\* plotfile = yield marv.make_file(name), then the figure: np.array(gps) of an
\* empty list has one axis and gps[:, 1] raises IndexError; the rows are masked
\* to finite latitude; savefig's failure is swallowed
GnssPlotsMakeFile(i) ==
    /\ kind[i] = "gnss_plots" /\ pc[i] = "make_file"
    /\ LET ev == MakeFileEv(local[i].name)
           loc == [local[i] EXCEPT !.plotfile = Some([relpath |-> local[i].name])]
       IN IF loc.gps = <<>>
          THEN Step(i, "fault", loc, <<ev, RaiseEv("IndexError")>>)
          ELSE Step(i, "yield_plotfile",
                    [loc EXCEPT
                        !.scatter = SelectSeq(loc.gps, LAMBDA row : ~isnan(row[2])),
                        !.orientation_plotted = (loc.orientation # <<>>),
                        !.written = input[i].savefig_ok],
                    <<ev>>)

\* yield plotfile
GnssPlotsYieldPlotfile(i) ==
    /\ kind[i] = "gnss_plots" /\ pc[i] = "yield_plotfile"
    /\ Step(i, "done", local[i], <<PushEv(local[i].plotfile.v)>>)

\* ------------------------------------------------------------------ summary_keyval, bagmeta_table, topics_section

DatasetFiles ==
    {[path |-> <<"/", "d", "/", "x">>, size |-> 10], [path |-> <<"y">>, size |-> 20]}

BagTopics ==
    {[name |-> TopicGnss, msg_type |-> "sensor_msgs/NavSatFix", msg_count |-> 3],
     [name |-> TopicImu, msg_type |-> "sensor_msgs/Imu", msg_count |-> 5]}

\* The dataset and the bag metadata of its files, each a stream of one item.
BagInputs(title) ==
    {[dataset |-> Stream(<<>>, <<[files |-> f]>>),
      bagmeta |-> Stream(<<>>, <<[start_time |-> 0, end_time |-> 5, duration |-> 5,
                                 bags |-> [k \in 1..Len(f) |->
                                     [start_time |-> 0, end_time |-> 5,
                                      duration |-> 5, msg_count |-> 8]],
                                 topics |-> t]>>),
      title |-> title] :
        f \in SeqsUpTo(DatasetFiles, MaxStreams), t \in SeqsUpTo(BagTopics, MaxStreams)}

BagLocal == [dataset |-> None, bagmeta |-> None, item |-> None]

RECURSIVE SumSizes(_)
\* sum(x.size for x in files)
SumSizes(files) ==
    IF files = <<>> THEN 0 ELSE files[1].size + SumSizes(Tail(files))

Min(a, b) == IF a < b THEN a ELSE b

\* dataset, bagmeta = yield marv.pull_all(dataset, bagmeta), then the keyval
SummaryKeyvalPullAll(i) ==
    /\ kind[i] = "summary_keyval" /\ pc[i] = "pull_all"
    /\ LET got == PullAll(<<input[i].dataset, input[i].bagmeta>>)
           dataset == got[1].v
           bagmeta == got[2].v
           items == <<
               [title |-> "size", formatter |-> "filesize", list |-> FALSE,
                cell |-> [uint64 |-> SumSizes(dataset.files)]],
               [title |-> "files", list |-> FALSE,
                cell |-> [uint64 |-> Len(dataset.files)]],
               [title |-> "start time", formatter |-> "datetime", list |-> FALSE,
                cell |-> [timestamp |-> bagmeta.start_time]],
               [title |-> "end time", formatter |-> "datetime", list |-> FALSE,
                cell |-> [timestamp |-> bagmeta.end_time]],
               [title |-> "duration", formatter |-> "timedelta", list |-> FALSE,
                cell |-> [timedelta |-> bagmeta.duration]]>>
       IN Step(i, "push",
               [local[i] EXCEPT !.dataset = got[1], !.bagmeta = got[2],
                                !.item = Some([keyval |-> [items |-> items]])],
               <<PullAllEv(got)>>)

\* yield marv.push({'keyval': {'items': [...]}})
SummaryKeyvalPush(i) ==
    /\ kind[i] = "summary_keyval" /\ pc[i] = "push"
    /\ Step(i, "done", local[i], <<PushEv(local[i].item.v)>>)

\* dataset, bagmeta = yield marv.pull_all(dataset, bagmeta), then the table
BagmetaTablePullAll(i) ==
    /\ kind[i] = "bagmeta_table" /\ pc[i] = "pull_all"
    /\ LET got == PullAll(<<input[i].dataset, input[i].bagmeta>>)
           dataset == got[1].v
           bagmeta == got[2].v
           columns == <<[title |-> "Name", formatter |-> "rellink"],
                        [title |-> "Size", formatter |-> "filesize"],
                        [title |-> "Start time", formatter |-> "datetime"],
                        [title |-> "End time", formatter |-> "datetime"],
                        [title |-> "Duration", formatter |-> "timedelta"],
                        [title |-> "Message count", align |-> "right"]>>
           rows == [k \in 1..Min(Len(bagmeta.bags), Len(dataset.files)) |->
               [id |-> k - 1,
                cells |-> <<
                    [link |-> [href |-> ToString(k - 1),
                               title |-> Basename(dataset.files[k].path)]],
                    [uint64 |-> dataset.files[k].size],
                    [timestamp |-> bagmeta.bags[k].start_time],
                    [timestamp |-> bagmeta.bags[k].end_time],
                    [timedelta |-> bagmeta.bags[k].duration],
                    [uint64 |-> bagmeta.bags[k].msg_count]>>]]
       IN Step(i, "push",
               [local[i] EXCEPT !.dataset = got[1], !.bagmeta = got[2],
                                !.item = Some([table |-> [columns |-> columns,
                                                          rows |-> rows]])],
               <<PullAllEv(got)>>)

\* yield marv.push({'table': {'columns': columns, 'rows': rows}})
BagmetaTablePush(i) ==
    /\ kind[i] = "bagmeta_table" /\ pc[i] = "push"
    /\ Step(i, "done", local[i], <<PushEv(local[i].item.v)>>)

\* dataset, bagmeta = yield marv.pull_all(dataset, bagmeta), then the section
TopicsSectionPullAll(i) ==
    /\ kind[i] = "topics_section" /\ pc[i] = "pull_all"
    /\ LET got == PullAll(<<input[i].dataset, input[i].bagmeta>>)
           bagmeta == got[2].v
           columns == <<[title |-> "Topic"], [title |-> "Message type"],
                        [title |-> "Message count", align |-> "right"]>>
           rows == [k \in 1..Len(bagmeta.topics) |->
               [id |-> k - 1,
                cells |-> <<[text |-> bagmeta.topics[k].name],
                            [text |-> bagmeta.topics[k].msg_type],
                            [uint64 |-> bagmeta.topics[k].msg_count]>>]]
           widgets == <<[table |-> [columns |-> columns, rows |-> rows]]>>
       IN Step(i, "push",
               [local[i] EXCEPT !.dataset = got[1], !.bagmeta = got[2],
                                !.item = Some([title |-> input[i].title,
                                               widgets |-> widgets])],
               <<PullAllEv(got)>>)

\* yield marv.push({'title': title, 'widgets': widgets})
TopicsSectionPush(i) ==
    /\ kind[i] = "topics_section" /\ pc[i] = "push"
    /\ Step(i, "done", local[i], <<PushEv(local[i].item.v)>>)

\* ------------------------------------------------------------------ gnss_section

\* The plot stream: without header and item (gnss_plots aborted), or with
\* the header gnss_plots set and the file it yielded.
GnssSectionInputs ==
    {[plots |-> Stream(<<>>, <<>>), title |-> "Position and Orientation"]}
    \cup {[plots |-> Stream(GnssPlotsTitle(g, o),
                            <<[relpath |-> GnssPlotsName(g, o)]>>),
           title |-> "Position and Orientation"] :
             g \in {TopicGnss, TopicNested},
             o \in {TopicImu, TopicOrientation, <<"n", "o", "n", "e">>}}

GnssSectionLocal == [widgets |-> <<>>]

\* A variant of GnssSectionPull without the test `if widgets`.
GnssSectionPullAlwaysPushes(i) ==
    /\ kind[i] = "gnss_section" /\ pc[i] = "pull"
    /\ LET plot == input[i].plots
           plotfile == Pull(plot.items, 0)
           widgets == IF ~IsNone(plotfile)
                      THEN <<[title |-> plot.title,
                              image |-> [src |-> plotfile.v.relpath]]>>
                      ELSE <<>>
       IN Step(i, "push", [local[i] EXCEPT !.widgets = widgets],
               <<PullEv("plots", plotfile)>>)

\* plots = [plots]; for plot in plots: plotfile = yield marv.pull(plot) ...
\* assert len(set(x['title'] for x in widgets)) == len(widgets)
GnssSectionPull(i) ==
    /\ kind[i] = "gnss_section" /\ pc[i] = "pull"
    /\ LET plot == input[i].plots
           plotfile == Pull(plot.items, 0)
           widgets == IF ~IsNone(plotfile)
                      THEN <<[title |-> plot.title,
                              image |-> [src |-> plotfile.v.relpath]]>>
                      ELSE <<>>
           ev == PullEv("plots", plotfile)
       IN IF ~UniqueTitles(widgets)
          THEN Step(i, "fault", [local[i] EXCEPT !.widgets = widgets],
                    <<ev, RaiseEv("AssertionError")>>)
          ELSE Step(i, IF widgets # <<>> THEN "push" ELSE "done",
                    [local[i] EXCEPT !.widgets = widgets], <<ev>>)

\* yield marv.push({'title': title, 'widgets': widgets})
GnssSectionPush(i) ==
    /\ kind[i] = "gnss_section" /\ pc[i] = "push"
    /\ Step(i, "done", local[i],
            <<PushEv([title |-> input[i].title, widgets |-> local[i].widgets])>>)

\* ------------------------------------------------------------------ galleries

ImageFiles == {[relpath |-> "1.jpg"], [relpath |-> "2.jpg"]}

GalleriesInputs ==
    {[stream |-> Stream(t, m)] :
        t \in {TopicA, TopicB}, m \in SeqsUpTo(ImageFiles, MaxStreams)}

GalleriesLocal == [consumed |-> 0, images |-> <<>>]

\* yield marv.set_header(title=stream.title)
GalleriesSetHeader(i) ==
    /\ kind[i] = "galleries" /\ pc[i] = "set_header"
    /\ Step(i, "pull", local[i], <<SetHeaderEv(input[i].stream.title)>>)

\* A variant of GalleriesPull that sets the header again for every image.
GalleriesPullSetsHeader(i) ==
    /\ kind[i] = "galleries" /\ pc[i] = "pull"
    /\ LET img == Pull(input[i].stream.items, local[i].consumed)
       IN IF IsNone(img)
          THEN Step(i, "push", local[i], <<PullEv("stream", img)>>)
          ELSE Step(i, "pull",
                    [local[i] EXCEPT !.consumed = @ + 1,
                                     !.images = Append(@, [src |-> img.v.relpath])],
                    <<PullEv("stream", img), SetHeaderEv(input[i].stream.title)>>)

\* img = yield marv.pull(stream) and the body of the loop
GalleriesPull(i) ==
    /\ kind[i] = "galleries" /\ pc[i] = "pull"
    /\ LET img == Pull(input[i].stream.items, local[i].consumed)
       IN IF IsNone(img)
          THEN Step(i, "push", local[i], <<PullEv("stream", img)>>)
          ELSE Step(i, "pull",
                    [local[i] EXCEPT !.consumed = @ + 1,
                                     !.images = Append(@, [src |-> img.v.relpath])],
                    <<PullEv("stream", img)>>)

\* yield marv.push({'title': stream.title, 'gallery': {'images': images}})
GalleriesPush(i) ==
    /\ kind[i] = "galleries" /\ pc[i] = "push"
    /\ Step(i, "done", local[i],
            <<PushEv([title |-> input[i].stream.title,
                      gallery |-> [images |-> local[i].images]])>>)

\* ------------------------------------------------------------------ images_section

\* The streams of galleries, each carrying the widget galleries pushed.
GalleryStreams ==
    {Stream(t, <<[title |-> t, gallery |-> [images |-> <<[src |-> f]>>]]>>) :
        t \in {TopicA, TopicB, TopicNested}, f \in {"1.jpg", "2.jpg"}}

ImagesSectionInputs ==
    {[galleries |-> Stream(<<>>, g), title |-> "Images"] :
        g \in SeqsUpTo(GalleryStreams, MaxStreams)}

ImagesSectionLocal == [consumed |-> 0, tmp |-> <<>>, galleries |-> <<>>,
                       widgets |-> <<>>]

\* msg = yield marv.pull(galleries) and the body of the loop; after the loop
\* galleries = sorted(galleries, key=lambda x: x.title)
ImagesSectionPull(i) ==
    /\ kind[i] = "images_section" /\ pc[i] = "pull"
    /\ LET msg == Pull(input[i].galleries.items, local[i].consumed)
       IN IF IsNone(msg)
          THEN Step(i, "pull_all",
                    [local[i] EXCEPT !.galleries = SortedByTitle(local[i].tmp)],
                    <<PullEv("galleries", msg)>>)
          ELSE Step(i, "pull",
                    [local[i] EXCEPT !.consumed = @ + 1, !.tmp = Append(@, msg.v)],
                    <<PullEv("galleries", msg)>>)

\* widgets = yield marv.pull_all(*galleries)
ImagesSectionPullAll(i) ==
    /\ kind[i] = "images_section" /\ pc[i] = "pull_all"
    /\ LET got == PullAll(local[i].galleries)
           widgets == [k \in 1..Len(got) |-> IF IsNone(got[k]) THEN None ELSE got[k].v]
       IN Step(i, IF widgets # <<>> THEN "push" ELSE "done",
               [local[i] EXCEPT !.widgets = widgets], <<PullAllEv(got)>>)

\* yield marv.push({'title': title, 'widgets': widgets})
ImagesSectionPush(i) ==
    /\ kind[i] = "images_section" /\ pc[i] = "push"
    /\ Step(i, "done", local[i],
            <<PushEv([title |-> input[i].title, widgets |-> local[i].widgets])>>)

\* ------------------------------------------------------------------ trajectory_section

\* The trajectory stream ends without an item or carries one geojson object,
\* which may be empty (and then false in a condition);
\* minzoom and maxzoom are the declared defaults.
TrajectorySectionInputs ==
    {[geojson |-> Stream(<<>>, g), title |-> "Trajectory", minzoom |-> -30,
      maxzoom |-> 40, tile_server_protocol |-> p] :
        g \in {<<>>, <<"">>, <<"feature_collection">>}, p \in {"", "https:"}}

TrajectorySectionLocal == [geojson |-> None, dct |-> None, jsonfile |-> None,
                           written |-> FALSE]

\* A variant of TrajectorySectionPull that tests the input only after the
\* artifact is allocated: it goes on to make_file without a geojson.
TrajectorySectionPullNoTest(i) ==
    /\ kind[i] = "trajectory_section" /\ pc[i] = "pull"
    /\ LET geojson == Pull(input[i].geojson.items, 0)
       IN Step(i, "make_file", [local[i] EXCEPT !.geojson = geojson],
               <<PullEv("geojson", geojson)>>)

\* make_map_dict of marv_detail: the map descriptor of the given layers and
\* zoom bounds.
make_map_dict(dct) == [layers |-> dct.layers, zoom |-> dct.zoom]

\* geojson = yield marv.pull(geojson); if not geojson: raise marv.Abort()
\* then layers and dct = make_map_dict(...)
TrajectorySectionPull(i) ==
    /\ kind[i] = "trajectory_section" /\ pc[i] = "pull"
    /\ LET geojson == Pull(input[i].geojson.items, 0)
           ev == PullEv("geojson", geojson)
           layers == <<
               [title |-> "Background",
                tiles |-> <<
                    [title |-> "Roadmap",
                     url |-> input[i].tile_server_protocol
                             \o "//[abc].osm.ternaris.com/mapbox-studio-osm-bright/{z}/{x}/{y}.png",
                     attribution |-> "© <a href=\"http://openstreetmap.org/copyright\">OpenStreetMap</a> contributors",
                     retina |-> 3, zoom |-> [min |-> 0, max |-> 20]],
                    [title |-> "Satellite",
                     url |-> input[i].tile_server_protocol
                             \o "//server.arcgisonline.com/ArcGIS/rest/services/World_Imagery/MapServer/tile/{z}/{y}/{x}.png",
                     attribution |-> "Sources: Esri, DigitalGlobe, GeoEye, Earthstar Geographics, CNES/Airbus DS, USDA, USGS, AeroGRID, IGN, and the GIS User Community",
                     zoom |-> [min |-> 0, max |-> 18]]>>],
               [title |-> "Trajectory", color |-> <<0, 255, 0, 255>>,
                geojson |-> geojson.v]>>
       IN IF IsNone(geojson) \/ geojson.v = ""
          THEN Step(i, "abort", local[i], <<ev, RaiseEv("Abort")>>)
          ELSE Step(i, "make_file",
                    [local[i] EXCEPT
                        !.geojson = geojson,
                        !.dct = Some(make_map_dict(
                                    [layers |-> layers,
                                     zoom |-> [min |-> input[i].minzoom,
                                               max |-> input[i].maxzoom]]))],
                    <<ev>>)

\* jsonfile = yield marv.make_file('data.json'); json.dump(dct, f, ...)
TrajectorySectionMakeFile(i) ==
    /\ kind[i] = "trajectory_section" /\ pc[i] = "make_file"
    /\ Step(i, "push",
            [local[i] EXCEPT !.jsonfile = Some([relpath |-> "data.json"]),
                             !.written = TRUE],
            <<MakeFileEv("data.json")>>)

\* yield marv.push({'title': title, 'widgets': [{'map_partial': ...}]})
TrajectorySectionPush(i) ==
    /\ kind[i] = "trajectory_section" /\ pc[i] = "push"
    /\ Step(i, "done", local[i],
            <<PushEv([title |-> input[i].title,
                      widgets |-> <<[map_partial |->
                          "marv-partial:" \o local[i].jsonfile.v.relpath]>>])>>)

\* ------------------------------------------------------------------ video_section

\* The streams of ffmpeg, each carrying the video file it produced.
VideoStreams ==
    {Stream(t, <<[relpath |-> "video.webm"]>>) : t \in {TopicA, TopicB, TopicNested}}

VideoSectionInputs ==
    {[videos |-> Stream(<<>>, v), title |-> "Videos"] :
        v \in SeqsUpTo(VideoStreams, MaxStreams)}

VideoSectionLocal == [consumed |-> 0, tmps |-> <<>>, videos |-> <<>>,
                      widgets |-> <<>>]

\* tmp = yield marv.pull(videos) and the body of the loop; after the loop
\* videos = sorted(tmps, key=lambda x: x.title); if not videos: raise marv.Abort()
VideoSectionPull(i) ==
    /\ kind[i] = "video_section" /\ pc[i] = "pull"
    /\ LET tmp == Pull(input[i].videos.items, local[i].consumed)
           ev == PullEv("videos", tmp)
           videos == SortedByTitle(local[i].tmps)
       IN IF ~IsNone(tmp)
          THEN Step(i, "pull",
                    [local[i] EXCEPT !.consumed = @ + 1, !.tmps = Append(@, tmp.v)],
                    <<ev>>)
          ELSE IF videos = <<>>
          THEN Step(i, "abort", local[i], <<ev, RaiseEv("Abort")>>)
          ELSE Step(i, "pull_all", [local[i] EXCEPT !.videos = videos], <<ev>>)

\* videofiles = yield marv.pull_all(*videos); widgets = [...]
\* assert len(set(x['title'] for x in widgets)) == len(widgets)
VideoSectionPullAll(i) ==
    /\ kind[i] = "video_section" /\ pc[i] = "pull_all"
    /\ LET videofiles == PullAll(local[i].videos)
           ev == PullAllEv(videofiles)
           widgets == [k \in 1..Min(Len(local[i].videos), Len(videofiles)) |->
               [title |-> local[i].videos[k].title,
                video |-> [src |-> videofiles[k].v.relpath]]]
       IN IF \E k \in 1..Len(videofiles) : IsNone(videofiles[k])
          THEN Step(i, "fault", local[i], <<ev, RaiseEv("AttributeError")>>)
          ELSE IF ~UniqueTitles(widgets)
          THEN Step(i, "fault", [local[i] EXCEPT !.widgets = widgets],
                    <<ev, RaiseEv("AssertionError")>>)
          ELSE Step(i, IF widgets # <<>> THEN "push" ELSE "done",
                    [local[i] EXCEPT !.widgets = widgets], <<ev>>)

\* yield marv.push({'title': title, 'widgets': widgets})
VideoSectionPush(i) ==
    /\ kind[i] = "video_section" /\ pc[i] = "push"
    /\ Step(i, "done", local[i],
            <<PushEv([title |-> input[i].title, widgets |-> local[i].widgets])>>)

\* ------------------------------------------------------------------ specification

\* The first request of each node.
FirstPc(k) ==
    CASE k = "positions" -> "set_header"
      [] k = "imus" -> "set_header"
      [] k = "navsatorients" -> "get_logger"
      [] k = "orientations" -> "pull_imus"
      [] k = "gnss_plots" -> "get_logger"
      [] k \in {"summary_keyval", "bagmeta_table", "topics_section"} -> "pull_all"
      [] k = "galleries" -> "set_header"
      [] k \in {"gnss_section", "images_section", "trajectory_section",
                "video_section"} -> "pull"

FirstLocal(k) ==
    CASE k = "positions" -> PositionsLocal
      [] k = "imus" -> ImusLocal
      [] k = "navsatorients" -> NavsatorientsLocal
      [] k = "orientations" -> OrientationsLocal
      [] k = "gnss_plots" -> GnssPlotsLocal
      [] k \in {"summary_keyval", "bagmeta_table", "topics_section"} -> BagLocal
      [] k = "gnss_section" -> GnssSectionLocal
      [] k = "galleries" -> GalleriesLocal
      [] k = "images_section" -> ImagesSectionLocal
      [] k = "trajectory_section" -> TrajectorySectionLocal
      [] k = "video_section" -> VideoSectionLocal

InputsOf(k) ==
    CASE k = "positions" -> PositionsInputs
      [] k = "imus" -> ImusInputs
      [] k = "navsatorients" -> NavsatorientsInputs
      [] k = "orientations" -> OrientationsInputs
      [] k = "gnss_plots" -> GnssPlotsInputs
      [] k = "summary_keyval" -> BagInputs("")
      [] k = "bagmeta_table" -> BagInputs("")
      [] k = "topics_section" -> BagInputs("Topics")
      [] k = "gnss_section" -> GnssSectionInputs
      [] k = "galleries" -> GalleriesInputs
      [] k = "images_section" -> ImagesSectionInputs
      [] k = "trajectory_section" -> TrajectorySectionInputs
      [] k = "video_section" -> VideoSectionInputs

Extractors == {"positions", "imus", "navsatorients"}

Sections == {"gnss_section", "images_section", "topics_section",
             "trajectory_section", "video_section"}

Kinds == Extractors \cup Sections
         \cup {"orientations", "gnss_plots", "summary_keyval", "bagmeta_table",
               "galleries"}

\* One invocation of one node, on any of its inputs.
Init ==
    \E k \in Kinds : \E inp \in InputsOf(k) :
        /\ kind = [i \in {1} |-> k]
        /\ input = [i \in {1} |-> inp]
        /\ pc = [i \in {1} |-> FirstPc(k)]
        /\ local = [i \in {1} |-> FirstLocal(k)]
        /\ events = [i \in {1} |-> <<>>]

Next ==
    \/ \E i \in DOMAIN pc : PositionsSetHeader(i)
    \/ \E i \in DOMAIN pc : PositionsPull(i)
    \/ \E i \in DOMAIN pc : PositionsGetLogger(i)
    \/ \E i \in DOMAIN pc : PositionsPush(i)
    \/ \E i \in DOMAIN pc : ImusSetHeader(i)
    \/ \E i \in DOMAIN pc : ImusPull(i)
    \/ \E i \in DOMAIN pc : ImusGetLogger(i)
    \/ \E i \in DOMAIN pc : ImusPush(i)
    \/ \E i \in DOMAIN pc : NavsatorientsGetLogger(i)
    \/ \E i \in DOMAIN pc : NavsatorientsSetHeader(i)
    \/ \E i \in DOMAIN pc : NavsatorientsPull(i)
    \/ \E i \in DOMAIN pc : NavsatorientsPush(i)
    \/ \E i \in DOMAIN pc : OrientationsPullImus(i)
    \/ \E i \in DOMAIN pc : OrientationsPushImus(i)
    \/ \E i \in DOMAIN pc : OrientationsPullNavsatorients(i)
    \/ \E i \in DOMAIN pc : OrientationsPushNavsatorients(i)
    \/ \E i \in DOMAIN pc : GnssPlotsGetLogger(i)
    \/ \E i \in DOMAIN pc : GnssPlotsPullAll(i)
    \/ \E i \in DOMAIN pc : GnssPlotsPullGps(i)
    \/ \E i \in DOMAIN pc : GnssPlotsPullOrientation(i)
    \/ \E i \in DOMAIN pc : GnssPlotsSetHeader(i)
    \/ \E i \in DOMAIN pc : GnssPlotsMakeFile(i)
    \/ \E i \in DOMAIN pc : GnssPlotsYieldPlotfile(i)
    \/ \E i \in DOMAIN pc : SummaryKeyvalPullAll(i)
    \/ \E i \in DOMAIN pc : SummaryKeyvalPush(i)
    \/ \E i \in DOMAIN pc : BagmetaTablePullAll(i)
    \/ \E i \in DOMAIN pc : BagmetaTablePush(i)
    \/ \E i \in DOMAIN pc : GnssSectionPull(i)
    \/ \E i \in DOMAIN pc : GnssSectionPush(i)
    \/ \E i \in DOMAIN pc : GalleriesSetHeader(i)
    \/ \E i \in DOMAIN pc : GalleriesPull(i)
    \/ \E i \in DOMAIN pc : GalleriesPush(i)
    \/ \E i \in DOMAIN pc : ImagesSectionPull(i)
    \/ \E i \in DOMAIN pc : ImagesSectionPullAll(i)
    \/ \E i \in DOMAIN pc : ImagesSectionPush(i)
    \/ \E i \in DOMAIN pc : TopicsSectionPullAll(i)
    \/ \E i \in DOMAIN pc : TopicsSectionPush(i)
    \/ \E i \in DOMAIN pc : TrajectorySectionPull(i)
    \/ \E i \in DOMAIN pc : TrajectorySectionMakeFile(i)
    \/ \E i \in DOMAIN pc : TrajectorySectionPush(i)
    \/ \E i \in DOMAIN pc : VideoSectionPull(i)
    \/ \E i \in DOMAIN pc : VideoSectionPullAll(i)
    \/ \E i \in DOMAIN pc : VideoSectionPush(i)

Spec == Init /\ [][Next]_vars

\* ------------------------------------------------------------------ foreach

\* positions expanded by foreach over the topics /a and /b: one instance per
\* topic, each on its own stream, scheduled in any interleaving.
InitForeach ==
    \E ins \in [{TopicA, TopicB} ->
                   [resolvable : BOOLEAN,
                    msgs : SeqsUpTo(PairFixRecords, MaxPairMsgs)]] :
        /\ kind = [t \in {TopicA, TopicB} |-> "positions"]
        /\ input = [t \in {TopicA, TopicB} |->
                       [topic |-> t, resolvable |-> ins[t].resolvable,
                        msgs |-> ins[t].msgs]]
        /\ pc = [t \in {TopicA, TopicB} |-> FirstPc("positions")]
        /\ local = [t \in {TopicA, TopicB} |-> PositionsLocal]
        /\ events = [t \in {TopicA, TopicB} |-> <<>>]

NextForeach ==
    \/ \E i \in DOMAIN pc : PositionsSetHeader(i)
    \/ \E i \in DOMAIN pc : PositionsPull(i)
    \/ \E i \in DOMAIN pc : PositionsGetLogger(i)
    \/ \E i \in DOMAIN pc : PositionsPush(i)

SpecForeach == InitForeach /\ [][NextForeach]_vars

\* ------------------------------------------------------------------ two runs of gnss_plots

\* Two invocations of gnss_plots (two runs), each on any input.
InitPlotsPair ==
    \E ins \in [{1, 2} ->
                   GnssPlotsInputsOver(SeqsUpTo({PlotRowOrigin}, MaxPairRows),
                                       SeqsUpTo(OrientationRows, MaxPairRows),
                                       {TRUE})] :
        /\ kind = [i \in {1, 2} |-> "gnss_plots"]
        /\ input = ins
        /\ pc = [i \in {1, 2} |-> FirstPc("gnss_plots")]
        /\ local = [i \in {1, 2} |-> GnssPlotsLocal]
        /\ events = [i \in {1, 2} |-> <<>>]

NextPlotsPair ==
    \/ \E i \in DOMAIN pc : GnssPlotsGetLogger(i)
    \/ \E i \in DOMAIN pc : GnssPlotsPullAll(i)
    \/ \E i \in DOMAIN pc : GnssPlotsPullGps(i)
    \/ \E i \in DOMAIN pc : GnssPlotsPullOrientation(i)
    \/ \E i \in DOMAIN pc : GnssPlotsSetHeader(i)
    \/ \E i \in DOMAIN pc : GnssPlotsMakeFile(i)
    \/ \E i \in DOMAIN pc : GnssPlotsYieldPlotfile(i)

SpecPlotsPair == InitPlotsPair /\ [][NextPlotsPair]_vars

\* ------------------------------------------------------------------ observations

\* The events of invocation i with operation op, in order.
Evs(i, op) == SelectSeq(events[i], LAMBDA e : e.op = op)

\* The items invocation i pushed, in order.
PushedItems(i) == [k \in 1..Len(Evs(i, "push")) |-> Evs(i, "push")[k].arg]

\* The logger calls of invocation i at a level, in order.
Logged(i, level) ==
    SelectSeq(events[i], LAMBDA e : e.op = "log" /\ e.arg[1] = level)

\* Positions in events[i] at which a pull returned the end marker.
EndMarkers(i) ==
    {k \in 1..Len(events[i]) :
        events[i][k].op = "pull" /\ IsNone(events[i][k].arg[2])}

IsPrefix(s, t) == Len(s) <= Len(t) /\ s = SubSeq(t, 1, Len(s))

\* ------------------------------------------------------------------ gnss_plots feeding gnss_section

\* The stream invocation p has produced once it has ended: the header it set
\* and the items it pushed.
OutputStream(p) ==
    Stream(IF Evs(p, "set_header") = <<>> THEN <<>>
           ELSE Evs(p, "set_header")[1].arg,
           PushedItems(p))

\* gnss_section's pull of its plot stream is suspended until gnss_plots has
\* finished; it then reads the stream gnss_plots produced.
PlotsStreamFinished(p, c) ==
    /\ kind[p] = "gnss_plots" /\ pc[p] \in Terminal
    /\ kind[c] = "gnss_section" /\ pc[c] = "suspended"
    /\ pc' = [pc EXCEPT ![c] = "pull"]
    /\ input' = [input EXCEPT ![c].plots = OutputStream(p)]
    /\ UNCHANGED <<kind, local, events>>

\* Invocation 1 is gnss_plots on any input, invocation 2 the gnss_section
\* that has it as its plots input.
InitPlotsSection ==
    \E in \in GnssPlotsInputs :
        /\ kind = <<"gnss_plots", "gnss_section">>
        /\ input = <<in, [plots |-> Stream(<<>>, <<>>),
                          title |-> "Position and Orientation"]>>
        /\ pc = <<FirstPc("gnss_plots"), "suspended">>
        /\ local = <<GnssPlotsLocal, GnssSectionLocal>>
        /\ events = <<<<>>, <<>>>>

NextPlotsSection ==
    \/ \E i \in DOMAIN pc : GnssPlotsGetLogger(i)
    \/ \E i \in DOMAIN pc : GnssPlotsPullAll(i)
    \/ \E i \in DOMAIN pc : GnssPlotsPullGps(i)
    \/ \E i \in DOMAIN pc : GnssPlotsPullOrientation(i)
    \/ \E i \in DOMAIN pc : GnssPlotsSetHeader(i)
    \/ \E i \in DOMAIN pc : GnssPlotsMakeFile(i)
    \/ \E i \in DOMAIN pc : GnssPlotsYieldPlotfile(i)
    \/ PlotsStreamFinished(1, 2)
    \/ \E i \in DOMAIN pc : GnssSectionPull(i)
    \/ \E i \in DOMAIN pc : GnssSectionPush(i)

SpecPlotsSection == InitPlotsSection /\ [][NextPlotsSection]_vars

\* ------------------------------------------------------------------ C1

\* C1: the merge node orientations pushes exactly the items of imus in their
\* order followed by the items of navsatorients in their order and nothing
\* else: what it has pushed is always a prefix of imus \o navsatorients, a
\* navsatorients item is pushed only after imus returned its end marker, and it
\* is done exactly when navsatorients returned its end marker, having pushed
\* all of them.
C1_MergeInOrder ==
    \A i \in DOMAIN pc : kind[i] = "orientations" =>
        LET A == input[i].imus
            B == input[i].navsatorients
        IN /\ IsPrefix(PushedItems(i), A \o B)
           /\ Len(PushedItems(i)) > Len(A) =>
                  \E k \in EndMarkers(i) : events[i][k].arg[1] = "imus"
           /\ pc[i] = "done" =>
                  /\ PushedItems(i) = A \o B
                  /\ Last(events[i]) = PullEv("navsatorients", None)
           /\ (\E k \in EndMarkers(i) : events[i][k].arg[1] = "navsatorients")
                  => pc[i] = "done"

\* A = [1, 2] and B = [3, 4] merged to [1, 2, 3, 4].
C1_Witness ==
    \E i \in DOMAIN pc :
        /\ kind[i] = "orientations" /\ pc[i] = "done"
        /\ input[i].imus = <<1, 2>> /\ input[i].navsatorients = <<3, 4>>
        /\ PushedItems(i) = <<1, 2, 3, 4>>

\* ------------------------------------------------------------------ C2

\* A record the claim counts as valid: status present, no NaN coordinate.
C2_Valid(r) ==
    r.has_status /\ ~r.latitude.nan /\ ~r.longitude.nan /\ ~r.altitude.nan

\* C2: positions, on a stream whose message class resolves, never raises, and
\* at the end of the stream the aggregate holds as many rows as there are
\* valid records and the skip counter equals the number of excluded records.
C2_SkipsAndNeverRaises ==
    \A i \in DOMAIN pc : (kind[i] = "positions" /\ input[i].resolvable) =>
        /\ pc[i] # "fault"
        /\ pc[i] = "done" =>
               /\ Len(PushedItems(i)[1].values)
                      = Len(SelectSeq(input[i].msgs, C2_Valid))
               /\ local[i].erroneous
                      = Len(SelectSeq(input[i].msgs, LAMBDA r : ~C2_Valid(r)))

\* ------------------------------------------------------------------ C3

\* The valid records among those positions has pulled.
C3_ValidPulled(i) ==
    SelectSeq(SubSeq(input[i].msgs, 1, local[i].consumed), C2_Valid)

\* The rows of a positions aggregate are normalized to the first valid record.
C3_Normalized(i, rows) ==
    LET recs == C3_ValidPulled(i)
        first == PositionsProject(recs[1])
    IN /\ Len(rows) <= Len(recs)
       /\ rows # <<>> =>
              /\ rows[1][5] = Num(0) /\ rows[1][6] = Num(0) /\ rows[1][7] = Num(0)
       /\ \A k \in 1..Len(rows) :
              LET en == PositionsProject(recs[k])
              IN /\ rows[k][2] = recs[k].latitude
                 /\ rows[k][3] = recs[k].longitude
                 /\ rows[k][5] = Sub(en.easting, first.easting)
                 /\ rows[k][6] = Sub(en.northing, first.northing)
                 /\ rows[k][7] = Sub(recs[k].altitude, recs[1].altitude)

\* C3: in positions the first valid record, however many invalid records
\* precede it, gets easting, northing and altitude offsets 0, and every later
\* valid record's offsets are its projected position and altitude minus those
\* of the first valid record; this holds of the rows accumulated and of the
\* aggregate pushed.
C3_FirstValidIsOrigin ==
    \A i \in DOMAIN pc : kind[i] = "positions" =>
        /\ C3_Normalized(i, local[i].positions)
        /\ \A k \in 1..Len(PushedItems(i)) :
               /\ PushedItems(i)[k].values = local[i].positions
               /\ C3_Normalized(i, PushedItems(i)[k].values)

\* An aggregate was pushed whose stream began with an invalid record and whose
\* second row lies off the origin.
C3_Witness ==
    \E i \in DOMAIN pc :
        /\ kind[i] = "positions" /\ pc[i] = "done"
        /\ input[i].msgs # <<>>
        /\ ~C2_Valid(input[i].msgs[1])
        /\ Len(PushedItems(i)[1].values) >= 2
        /\ PushedItems(i)[1].values[2][5] # Num(0)
        /\ PushedItems(i)[1].values[2][7] # Num(0)

\* ------------------------------------------------------------------ C4

\* The records of its stream an extractor skips.
C4_Skipped(i) ==
    SelectSeq(input[i].msgs, LAMBDA r :
        CASE kind[i] = "positions" -> ~C2_Valid(r)
          [] kind[i] = "imus" -> r.orientation.x.nan
          [] kind[i] = "navsatorients" -> r.yaw.nan)

\* C4: an extractor pushes at most one item and only after its input's end
\* marker was pulled; it logs nothing while records are pulled; and when it is
\* done it has pushed exactly one aggregate and logged exactly one warning,
\* carrying the number of skipped records, if any record was skipped, and no
\* warning otherwise.
C4_OneAggregateOneWarning ==
    \A i \in DOMAIN pc : kind[i] \in Extractors =>
        /\ Len(PushedItems(i)) <= 1
        /\ \A p \in 1..Len(events[i]) :
               (\/ events[i][p].op = "push"
                \/ (events[i][p].op = "log" /\ events[i][p].arg[1] = "warn"))
               => \E q \in EndMarkers(i) : q < p
        /\ Len(Logged(i, "warn")) <= 1
        /\ pc[i] = "done" =>
               /\ Len(PushedItems(i)) = 1
               /\ EndMarkers(i) # {}
               /\ Logged(i, "error") = <<>>
               /\ Evs(i, "raise") = <<>>
               /\ IF C4_Skipped(i) # <<>>
                  THEN Logged(i, "warn") = <<LogEv("warn", Len(C4_Skipped(i)))>>
                  ELSE Logged(i, "warn") = <<>>

\* The stream /gnss with 3 valid records and 1 NaN-altitude record: an
\* aggregate of length 3 and one warning with count 1.
C4_Witness ==
    \E i \in DOMAIN pc :
        /\ kind[i] = "positions" /\ pc[i] = "done"
        /\ Len(input[i].msgs) = 4
        /\ Len(SelectSeq(input[i].msgs, LAMBDA r : r = FixNaNAltitude)) = 1
        /\ Len(PushedItems(i)[1].values) = 3
        /\ Logged(i, "warn") = <<LogEv("warn", 1)>>

\* ------------------------------------------------------------------ C5

\* C5: in every node invocation set_header is issued at most once and never
\* after a push.
C5_HeaderOnceBeforePush ==
    \A i \in DOMAIN pc :
        /\ Len(Evs(i, "set_header")) <= 1
        /\ \A p, q \in 1..Len(events[i]) :
               events[i][p].op = "set_header" /\ events[i][q].op = "push" => p < q

\* A plot composer invocation that set its header and then emitted its file.
C5_Witness ==
    \E i \in DOMAIN pc :
        /\ kind[i] = "gnss_plots" /\ pc[i] = "done"
        /\ Len(Evs(i, "set_header")) = 1
        /\ Len(PushedItems(i)) = 1

\* ------------------------------------------------------------------ C6

RECURSIVE C6_Alone(_, _)
\* What an instance of positions holds after pulling n records of msgs when it
\* runs alone: its skip count, its local origin and its rows.
C6_Alone(msgs, n) ==
    IF n = 0 THEN [erroneous |-> 0, origin |-> None, positions |-> <<>>]
    ELSE LET prev == C6_Alone(msgs, n - 1)
             r == msgs[n]
             en == PositionsProject(r)
             o == IF IsNone(prev.origin)
                  THEN [e |-> en.easting, n |-> en.northing, u |-> r.altitude]
                  ELSE prev.origin.v
         IN IF ~C2_Valid(r) THEN [prev EXCEPT !.erroneous = @ + 1]
            ELSE IF en.raised THEN prev
            ELSE [prev EXCEPT
                     !.origin = Some(o),
                     !.positions = Append(@,
                         <<r.stamp, r.latitude, r.longitude, r.altitude,
                           Sub(en.easting, o.e), Sub(en.northing, o.n),
                           Sub(r.altitude, o.u), r.status,
                           sqrt(r.position_covariance0)>>)]

\* C6: positions expanded over the topics /a and /b runs as exactly two
\* instances, each sets its own topic as header, and under every interleaving
\* each instance's rows, skip count, local origin and pushed aggregate are
\* those it has when it runs alone on its own stream.
C6_InstancesIndependent ==
    /\ DOMAIN pc = {TopicA, TopicB}
    /\ \A t \in DOMAIN pc :
           LET alone == C6_Alone(input[t].msgs, local[t].consumed)
           IN /\ \A k \in 1..Len(Evs(t, "set_header")) :
                     Evs(t, "set_header")[k] = SetHeaderEv(t)
              /\ pc[t] # "set_header" => Len(Evs(t, "set_header")) = 1
              /\ local[t].erroneous = alone.erroneous
              /\ local[t].positions = alone.positions
              /\ IsNone(local[t].e_offset) = IsNone(alone.origin)
              /\ ~IsNone(alone.origin) =>
                     /\ local[t].e_offset.v = alone.origin.v.e
                     /\ local[t].n_offset.v = alone.origin.v.n
                     /\ local[t].u_offset.v = alone.origin.v.u
              /\ \A k \in 1..Len(PushedItems(t)) :
                     PushedItems(t)[k] = [values |-> alone.positions]

\* Both instances are done, with different origins, one of them after a skip.
C6_Witness ==
    /\ pc[TopicA] = "done" /\ pc[TopicB] = "done"
    /\ Evs(TopicA, "set_header") = <<SetHeaderEv(TopicA)>>
    /\ Evs(TopicB, "set_header") = <<SetHeaderEv(TopicB)>>
    /\ local[TopicA].positions # <<>> /\ local[TopicB].positions # <<>>
    /\ local[TopicA].e_offset # local[TopicB].e_offset
    /\ local[TopicA].erroneous = 1 /\ local[TopicB].erroneous = 0

\* ------------------------------------------------------------------ C7

\* No position data: no position stream, or an aggregate with no rows.
C7_NoPositionData(i) ==
    \/ input[i].gps.items = <<>>
    \/ input[i].gps.items[1].items[1].values = <<>>

\* C7: without position data gnss_plots logs an error and aborts: it sets no
\* header, allocates no artifact, emits nothing and does not end in a fault.
C7_AbortsWithoutPositionData ==
    \A i \in DOMAIN pc : (kind[i] = "gnss_plots" /\ C7_NoPositionData(i)) =>
        /\ pc[i] # "fault"
        /\ Evs(i, "set_header") = <<>>
        /\ Evs(i, "make_file") = <<>>
        /\ PushedItems(i) = <<>>
        /\ pc[i] \in Terminal =>
               /\ pc[i] = "abort"
               /\ Len(Logged(i, "error")) = 1

\* ------------------------------------------------------------------ C8

\* The orientation title gnss_plots is to use: that of the orientation
\* stream when it carries an item, else 'none'.
C8_OrientationAbsent(i) ==
    \/ input[i].orientation.items = <<>>
    \/ input[i].orientation.items[1].items = <<>>

C8_OrientationTitle(i) ==
    IF C8_OrientationAbsent(i) THEN <<"n", "o", "n", "e">>
    ELSE input[i].orientation.items[1].title

C8_PositionTitle(i) == input[i].gps.items[1].title

\* C8: with position data, gnss_plots never aborts (nor faults); the header it
\* sets is "<position-title> with <orientation-title>", with 'none' for an
\* absent orientation; with orientation absent it has logged one warning and
\* holds an empty orientation list by the time it sets the header, with
\* orientation present it logs none; and when done it has allocated one
\* artifact and emitted exactly one item, that artifact.
C8_ProceedsWithoutOrientation ==
    \A i \in DOMAIN pc : (kind[i] = "gnss_plots" /\ ~C7_NoPositionData(i)) =>
        /\ pc[i] \notin {"abort", "fault"}
        /\ \A k \in 1..Len(Evs(i, "set_header")) :
               Evs(i, "set_header")[k].arg
                   = C8_PositionTitle(i) \o <<" ", "w", "i", "t", "h", " ">>
                     \o C8_OrientationTitle(i)
        /\ pc[i] \in {"make_file", "yield_plotfile", "done"} =>
               /\ Len(Evs(i, "set_header")) = 1
               /\ local[i].otitle = C8_OrientationTitle(i)
               /\ IF C8_OrientationAbsent(i)
                  THEN /\ Len(Logged(i, "warn")) = 1
                       /\ local[i].orientation = <<>>
                  ELSE /\ Logged(i, "warn") = <<>>
                       /\ local[i].orientation
                              = input[i].orientation.items[1].items[1].values
        /\ Logged(i, "error") = <<>>
        /\ pc[i] = "done" =>
               /\ Len(Evs(i, "make_file")) = 1
               /\ PushedItems(i) = <<[relpath |-> Evs(i, "make_file")[1].arg]>>

\* gnss_plots is done on the position stream /gnss and an orientation stream
\* /imu that ended without an item: header "/gnss with none", one warning.
C8_Witness ==
    \E i \in DOMAIN pc :
        /\ kind[i] = "gnss_plots" /\ pc[i] = "done"
        /\ input[i].orientation.items # <<>>
        /\ input[i].orientation.items[1] = Stream(TopicImu, <<>>)
        /\ Evs(i, "set_header")
               = <<SetHeaderEv(<<"/", "g", "n", "s", "s", " ", "w", "i", "t", "h",
                                 " ", "n", "o", "n", "e">>)>>
        /\ Len(Logged(i, "warn")) = 1
        /\ Len(PushedItems(i)) = 1

\* ------------------------------------------------------------------ C9

\* C9: the name gnss_plots passes to make_file depends only on the position
\* title and the orientation title (the stream's, or 'none'): two invocations
\* with the same titles request the same name whatever their streams carry,
\* and no name contains '/'.
C9_NameFromTitlesOnly ==
    /\ \A i, j \in DOMAIN pc :
           (/\ kind[i] = "gnss_plots" /\ kind[j] = "gnss_plots"
            /\ Evs(i, "make_file") # <<>> /\ Evs(j, "make_file") # <<>>
            /\ C8_PositionTitle(i) = C8_PositionTitle(j)
            /\ C8_OrientationTitle(i) = C8_OrientationTitle(j))
           => Evs(i, "make_file")[1].arg = Evs(j, "make_file")[1].arg
    /\ \A i \in DOMAIN pc : kind[i] = "gnss_plots" =>
           \A k \in 1..Len(Evs(i, "make_file")) :
               \A c \in 1..Len(Evs(i, "make_file")[k].arg) :
                   Evs(i, "make_file")[k].arg[c] # "/"

\* Two invocations with the same titles, one of them nested (/a/b), and
\* different stream contents requested the same name.
C9_Witness ==
    /\ DOMAIN pc = {1, 2}
    /\ Evs(1, "make_file") # <<>> /\ Evs(2, "make_file") # <<>>
    /\ C8_PositionTitle(1) = TopicNested /\ C8_PositionTitle(2) = TopicNested
    /\ C8_OrientationTitle(1) = C8_OrientationTitle(2)
    /\ input[1] # input[2]
    /\ local[1].gps # local[2].gps
    /\ Evs(1, "make_file") = Evs(2, "make_file")

\* ------------------------------------------------------------------ C10

\* C10: no section assembler pushes a Section with an empty widget list, and
\* one that ended having built no widget has pushed nothing.
C10_NoEmptySection ==
    \A i \in DOMAIN pc : kind[i] \in Sections =>
        /\ \A k \in 1..Len(PushedItems(i)) : PushedItems(i)[k].widgets # <<>>
        /\ (/\ kind[i] \in {"gnss_section", "images_section", "video_section"}
            /\ pc[i] \in Terminal
            /\ local[i].widgets = <<>>)
           => PushedItems(i) = <<>>

\* gnss_section and images_section can end without a widget and without a
\* push: here images_section did, on no gallery stream.
C10_Witness ==
    \E i \in DOMAIN pc :
        /\ kind[i] = "images_section" /\ pc[i] = "done"
        /\ Evs(i, "pull_all") # <<>>
        /\ local[i].widgets = <<>>
        /\ PushedItems(i) = <<>>

\* ------------------------------------------------------------------ C11

\* C11: trajectory_section without a geojson item, and video_section without
\* a video stream, never get past their pull: they end with Abort and in no
\* other way, push no Section, and trajectory_section allocates no artifact.
C11_AbortWhenEmpty ==
    \A i \in DOMAIN pc :
        /\ (kind[i] = "trajectory_section" /\ input[i].geojson.items = <<>>) =>
               /\ pc[i] \in {"pull", "abort"}
               /\ Evs(i, "make_file") = <<>>
               /\ PushedItems(i) = <<>>
               /\ pc[i] = "abort" => Last(events[i]) = RaiseEv("Abort")
        /\ (kind[i] = "video_section" /\ input[i].videos.items = <<>>) =>
               /\ pc[i] \in {"pull", "abort"}
               /\ PushedItems(i) = <<>>
               /\ pc[i] = "abort" => Last(events[i]) = RaiseEv("Abort")

\* trajectory_section aborted on a geojson stream that ended without an item.
C11_Witness ==
    \E i \in DOMAIN pc :
        /\ kind[i] = "trajectory_section" /\ pc[i] = "abort"
        /\ input[i].geojson.items = <<>>
        /\ events[i] = <<PullEv("geojson", None), RaiseEv("Abort")>>

\* video_section aborted on no video stream.
C11_WitnessVideo ==
    \E i \in DOMAIN pc :
        /\ kind[i] = "video_section" /\ pc[i] = "abort"
        /\ events[i] = <<PullEv("videos", None), RaiseEv("Abort")>>

\* ------------------------------------------------------------------ C12

\* C12: every Section pushed by gnss_section, images_section or video_section
\* has pairwise distinct widget titles, whatever the titles of the upstream
\* streams are.
C12_DistinctWidgetTitles ==
    \A i \in DOMAIN pc :
        kind[i] \in {"gnss_section", "images_section", "video_section"} =>
            \A p \in 1..Len(PushedItems(i)) :
                UniqueTitles(PushedItems(i)[p].widgets)

\* ------------------------------------------------------------------ C13

\* The input streams a node declares with marv.input (parameters with plain
\* values, such as title or minzoom, are not streams).
C13_DeclaredStreams(k) ==
    CASE k \in {"positions", "imus", "navsatorients", "galleries"} -> {"stream"}
      [] k = "orientations" -> {"imus", "navsatorients"}
      [] k = "gnss_plots" -> {"gps", "orientation"}
      [] k \in {"summary_keyval", "bagmeta_table", "topics_section"} ->
            {"dataset", "bagmeta"}
      [] k = "gnss_section" -> {"plots"}
      [] k = "images_section" -> {"galleries"}
      [] k = "trajectory_section" -> {"geojson"}
      [] k = "video_section" -> {"videos"}

\* C13: an invocation that has completed without Abort has pulled every
\* input stream it declares until a pull on that stream returned the end
\* marker.
C13_PulledToEndMarker ==
    \A i \in DOMAIN pc :
        pc[i] = "done" =>
            \A name \in C13_DeclaredStreams(kind[i]) :
                \E k \in EndMarkers(i) : events[i][k].arg[1] = name

\* ------------------------------------------------------------------ C14

\* C14: a navsatorients instance whose message type cannot be resolved never
\* pulls a record and never pushes; it ends only by Abort, and has then
\* logged exactly one error, right before the Abort.
C14_UnresolvableAborts ==
    \A i \in DOMAIN pc :
        (kind[i] = "navsatorients" /\ ~input[i].resolvable) =>
            /\ pc[i] \in {"get_logger", "set_header", "abort"}
            /\ Evs(i, "pull") = <<>>
            /\ PushedItems(i) = <<>>
            /\ pc[i] = "abort" =>
                   /\ Len(Logged(i, "error")) = 1
                   /\ Len(events[i]) >= 2
                   /\ events[i][Len(events[i]) - 1].op = "log"
                   /\ events[i][Len(events[i]) - 1].arg[1] = "error"
                   /\ Last(events[i]) = RaiseEv("Abort")

\* An instance with records waiting on its stream aborted on the type lookup.
C14_Witness ==
    \E i \in DOMAIN pc :
        /\ kind[i] = "navsatorients" /\ ~input[i].resolvable
        /\ input[i].msgs # <<>>
        /\ pc[i] = "abort"
        /\ Logged(i, "error") # <<>>

\* ------------------------------------------------------------------ C15

\* C15: an instance of a foreach extractor (positions, imus, navsatorients)
\* whose message type is not registered never ends in a fault: when it has
\* ended it has ended by Abort after logging an error; and every sibling
\* instance holds the rows it has when it runs alone.
C15_UnregisteredTypeAborts ==
    \A i \in DOMAIN pc :
        (kind[i] \in {"positions", "imus", "navsatorients"}
         /\ ~input[i].resolvable) =>
            /\ pc[i] # "fault"
            /\ pc[i] \in Terminal =>
                   /\ pc[i] = "abort"
                   /\ Logged(i, "error") # <<>>
                   /\ Last(events[i]) = RaiseEv("Abort")
            /\ \A j \in DOMAIN pc \ {i} :
                   (kind[j] = "positions" /\ input[j].resolvable) =>
                       local[j].positions =
                           C6_Alone(input[j].msgs, local[j].consumed).positions

\* ------------------------------------------------------------------ C16

\* The source streams of an assembler, in their order of arrival.
C16_Streams(i) ==
    IF kind[i] = "images_section" THEN input[i].galleries.items
    ELSE input[i].videos.items

\* The widget that belongs to source stream s.
C16_Widget(i, s) ==
    IF kind[i] = "images_section" THEN s.items[1]
    ELSE [title |-> s.title, video |-> [src |-> s.items[1].relpath]]

\* C16: the widget list of every Section pushed by images_section or
\* video_section has one widget per source stream, in ascending order of
\* title; when the stream titles are distinct, the k-th widget is the widget
\* of the stream with the k-th smallest title, which depends on the set of
\* streams only and not on their order of arrival.
C16_SortedOnePerStream ==
    \A i \in DOMAIN pc :
        kind[i] \in {"images_section", "video_section"} =>
            \A p \in 1..Len(PushedItems(i)) :
                LET w == PushedItems(i)[p].widgets
                    ss == C16_Streams(i)
                IN /\ Len(w) = Len(ss)
                   /\ \A k \in 1..(Len(w) - 1) : StrLeq(w[k].title, w[k + 1].title)
                   /\ UniqueTitles(ss) =>
                          \A k \in 1..Len(w) :
                              \E n \in 1..Len(ss) :
                                  /\ w[k] = C16_Widget(i, ss[n])
                                  /\ Cardinality({m \in 1..Len(ss) :
                                         StrLeq(ss[m].title, ss[n].title)}) = k

\* images_section pushed its Section for streams that arrived in descending
\* order of title.
C16_Witness ==
    \E i \in DOMAIN pc :
        /\ kind[i] = "images_section" /\ pc[i] = "done"
        /\ Len(input[i].galleries.items) = 2
        /\ input[i].galleries.items[1].title = TopicB
        /\ input[i].galleries.items[2].title = TopicA
        /\ Len(PushedItems(i)) = 1
        /\ PushedItems(i)[1].widgets[1].title = TopicA

\* video_section pushed its Section for streams that arrived in descending
\* order of title.
C16_WitnessVideo ==
    \E i \in DOMAIN pc :
        /\ kind[i] = "video_section" /\ pc[i] = "done"
        /\ Len(input[i].videos.items) = 2
        /\ input[i].videos.items[1].title = TopicB
        /\ input[i].videos.items[2].title = TopicNested
        /\ Len(PushedItems(i)) = 1
        /\ PushedItems(i)[1].widgets[1].title = TopicNested

\* ------------------------------------------------------------------ C17

\* The records imus has converted so far: those it pulled without a NaN
\* orientation, in their order.
C17_Converted(i) ==
    SelectSeq(SubSeq(input[i].msgs, 1, local[i].consumed),
              LAMBDA r : ~isnan(r.orientation.x))

\* C17: every yaw imus computes with yaw_angle is 0 for the identity
\* quaternion (0, 0, 0, 1), pi/2 for the quaternion (0, 0, sqrt(2)/2,
\* sqrt(2)/2) of a rotation by 90 degrees about z, and for every quaternion
\* atan2 of the y and x components of (1, 0, 0) rotated by the quaternion's
\* rotation matrix, which are 2(xy + zw) and 1 - 2yy - 2zz.
C17_YawAngle ==
    \A i \in DOMAIN pc :
        kind[i] = "imus" =>
            /\ Len(local[i].imus) = Len(C17_Converted(i))
            /\ \A k \in 1..Len(local[i].imus) :
                   LET q == C17_Converted(i)[k].orientation
                       yaw == local[i].imus[k][2]
                       vx == Sub(Sub(Num(1), Mul(Num(2), Mul(q.y, q.y))),
                                 Mul(Num(2), Mul(q.z, q.z)))
                       vy == Mul(Num(2), Add(Mul(q.x, q.y), Mul(q.z, q.w)))
                   IN /\ q = [x |-> Num(0), y |-> Num(0), z |-> Num(0), w |-> Num(1)]
                          => yaw = [nan |-> FALSE, pi4 |-> 0]
                      /\ q = [x |-> Num(0), y |-> Num(0), z |-> Float(0, 1, 2),
                              w |-> Float(0, 1, 2)]
                          => yaw = [nan |-> FALSE, pi4 |-> 2]
                      /\ yaw = arctan2(vy, vx)

\* imus has converted the identity and the quarter turn about z.
C17_Witness ==
    \E i \in DOMAIN pc :
        /\ kind[i] = "imus"
        /\ Len(local[i].imus) = 2
        /\ local[i].imus[1] = <<Num(1), [nan |-> FALSE, pi4 |-> 0]>>
        /\ local[i].imus[2] = <<Num(4), [nan |-> FALSE, pi4 |-> 2]>>
        /\ C17_Converted(i) = <<ImuIdentity, ImuQuarterTurn>>

\* ------------------------------------------------------------------ C18

\* C18: in positions the local origin is the projection of the first valid
\* record's (latitude, longitude), and the easting and northing offsets of
\* every row are the projection of the row's (latitude, longitude), in that
\* argument order, minus the origin.
C18_ProjectsLatLon ==
    \A i \in DOMAIN pc :
        kind[i] = "positions" =>
            \A k \in 1..Len(local[i].positions) :
                LET row == local[i].positions[k]
                    first == local[i].positions[1]
                    p == from_latlon(row[2], row[3])
                    p0 == from_latlon(first[2], first[3])
                IN /\ ~p.raised /\ ~p0.raised
                   /\ local[i].e_offset = Some(p0.easting)
                   /\ local[i].n_offset = Some(p0.northing)
                   /\ row[5] = Sub(p.easting, p0.easting)
                   /\ row[6] = Sub(p.northing, p0.northing)

\* ------------------------------------------------------------------ C19

\* C19: when rendering to the artifact path fails, gnss_plots neither aborts
\* nor faults: it goes on to emit the handle of the artifact, which was not
\* written, as its only item; and the gnss_section fed by it pushes a Section
\* whose image widget refers to that artifact.
C19_RenderFailureSwallowed ==
    (/\ kind[1] = "gnss_plots" /\ kind[2] = "gnss_section"
     /\ ~input[1].savefig_ok
     /\ local[1].gps # <<>>
     /\ Evs(1, "make_file") # <<>>) =>
        /\ pc[1] \in {"yield_plotfile", "done"}
        /\ Evs(1, "raise") = <<>>
        /\ ~local[1].written
        /\ pc[1] = "done" => PushedItems(1) = <<[relpath |-> local[1].name]>>
        /\ pc[2] = "done" =>
               PushedItems(2) =
                   <<[title |-> "Position and Orientation",
                      widgets |-> <<[title |-> local[1].title,
                                     image |-> [src |-> local[1].name]]>>]>>

\* gnss_section has pushed a widget for an artifact gnss_plots did not write.
C19_Witness ==
    /\ kind[1] = "gnss_plots" /\ kind[2] = "gnss_section"
    /\ ~input[1].savefig_ok /\ ~local[1].written
    /\ pc[1] = "done" /\ pc[2] = "done"
    /\ Len(PushedItems(2)) = 1
    /\ PushedItems(2)[1].widgets[1].image.src = local[1].name

\* ------------------------------------------------------------------ C20

\* C20: in every node an Abort comes before any push and any make_file of the
\* invocation: an invocation that raised Abort has ended there, has allocated
\* no artifact and has pushed no item; and no invocation calls make_file more
\* than once.
C20_AbortBeforeEffects ==
    \A i \in DOMAIN pc :
        /\ Len(Evs(i, "make_file")) <= 1
        /\ (pc[i] = "abort" \/ RaiseEv("Abort") \in {events[i][k] : k \in 1..Len(events[i])}) =>
               /\ pc[i] = "abort"
               /\ Last(events[i]) = RaiseEv("Abort")
               /\ Evs(i, "make_file") = <<>>
               /\ PushedItems(i) = <<>>

\* gnss_plots aborted on no position stream, after its pull_all.
C20_Witness ==
    \E i \in DOMAIN pc :
        /\ kind[i] = "gnss_plots" /\ pc[i] = "abort"
        /\ Evs(i, "pull_all") # <<>>
        /\ Last(events[i]) = RaiseEv("Abort")

\* An invocation has completed after exactly one make_file and a push.
C20_WitnessMakeFile ==
    \E i \in DOMAIN pc :
        /\ pc[i] = "done"
        /\ Len(Evs(i, "make_file")) = 1
        /\ PushedItems(i) # <<>>

====
